---------------------------- MODULE Spec2Model ----------------------------
(***************************************************************************)
(* A model of RPI-Clock (src/clock.py): the duty-cycle loop main_loop, the *)
(* render cache write_display, the display functions, fetch_weather with   *)
(* its retry policy, should_display_custom_text and signal_handler.        *)
(*                                                                         *)
(* Conventions.                                                            *)
(*  - A text is a sequence of one-character strings; Python's None for a   *)
(*    text is NoneText, for the weather tuple it is the empty tuple.       *)
(*  - Temperatures are carried in fifths of a degree (x5): an int c is     *)
(*    5*c, and the float c * 9/5 + 32 is 9*c + 160, which is exact at the  *)
(*    precision int() and the sign test of the display code look at.       *)
(*  - Raw API numbers are carried in tenths.                               *)
(*  - The wall clock is in whole seconds; it is read, never set, by the    *)
(*    program and advances between two reads by 0 or TimeStep seconds.     *)
(***************************************************************************)
EXTENDS Integers, Sequences, FiniteSets

(***************************************************************************)
(* Bounds of the model                                                     *)
(***************************************************************************)
\* largest configured time_display (seconds) explored
MaxTimeDisplay == 2
\* number of hardware (I2C) faults the environment may raise in a behaviour
MaxFaults == 1
\* number of times the wall clock may be seen to advance by TimeStep
MaxAdvances == 2
\* number of iterations of main_loop's while loop explored in detail
MaxIterations == 3
\* duty cycles explored beyond one refresh period in the long runs
MaxExtraCycles == 1
MaxOverrun == 2
MaxCold == 100

(***************************************************************************)
(* Program constants                                                       *)
(***************************************************************************)
API_REFRESH_CYCLES == 10
max_retries == 3
retry_delay == 5
COOLDOWN == 5
SecondsPerMinute == 60
TEMP_DISPLAY == 3
FEELS_LIKE_DISPLAY == 3
HUMIDITY_DISPLAY == 2
CUSTOM_TEXT_INTERVAL == 1
CUSTOM_TEXT_DURATION == 3
MetricMessageDelay == 2

TimeStep == SecondsPerMinute \div 2
SecondsPerDay == 24 * 60 * SecondsPerMinute
\* wall-clock second of the day at which the program starts (23:59:30)
StartWall == SecondsPerDay - TimeStep

(***************************************************************************)
(* Texts and Python string formatting                                      *)
(***************************************************************************)
NoneText == <<"None">>
None == <<>>

Digits == <<"0", "1", "2", "3", "4", "5", "6", "7", "8", "9">>

RECURSIVE IntStr(_)
\* str(n) / f"{n}" for an int n >= 0
IntStr(n) == IF n < 10 THEN <<Digits[n + 1]>>
             ELSE IntStr(n \div 10) \o <<Digits[(n % 10) + 1]>>

RECURSIVE Fill(_, _)
Fill(c, k) == IF k <= 0 THEN <<>> ELSE <<c>> \o Fill(c, k - 1)

\* str.rjust(w) with fill character c: never truncates
RJust(s, w, c) == Fill(c, w - Len(s)) \o s

\* s[:k]
Prefix(s, k) == SubSeq(s, 1, IF Len(s) < k THEN Len(s) ELSE k)

\* f"{n:2d}" and f"{n:02d}" for n >= 0
Fmt2d(n) == RJust(IntStr(n), 2, " ")
Fmt02d(n) == RJust(IntStr(n), 2, "0")

Abs(x) == IF x < 0 THEN -x ELSE x

\* int(abs(temp)) of a value carried in fifths: truncation toward zero
IntAbs(fifths) == Abs(fifths) \div 5

\* int(round(x)) of a raw value carried in tenths: Python 3 rounds half to even
PyRound(tenths) ==
    LET q == tenths \div 10
        r == tenths % 10
    IN  IF r < 5 THEN q
        ELSE IF r > 5 THEN q + 1
        ELSE IF q % 2 = 0 THEN q ELSE q + 1

\* (celsius * C_TO_F_FACTOR) + 32 on a value in fifths, result in fifths
celsius_to_fahrenheit(celsius) == (celsius * 9) \div 5 + 32 * 5

(***************************************************************************)
(* State                                                                   *)
(***************************************************************************)
VARIABLES
    \* configuration cached at start-up (clock.py 174-188) and the display handle
    display,              \* TRUE: a Seg7x4 object, FALSE: None (initialisation failed)
    TIME_DISPLAY,
    TIME_FORMAT,
    TEMP_UNIT,
    SMOOTH_SCROLL,
    CUSTOM_TEXT_ENABLED,
    \* fetch_weather
    fetch_pc,             \* "idle", "attempt" (in the for loop), "returned"
    attempt,              \* the for loop's index
    sleeps,               \* number of time.sleep(retry_delay) calls of this fetch
    outcomes,             \* what each attempt of this fetch met, in order
    fetch_ret,            \* the value returned
    \* main_loop and the module globals
    pc,                   \* where main_loop is
    cycle_counter,
    cached_weather_info,
    last_display_text,
    last_time_minute,     \* -1: None
    last_custom_text_time,\* -1: None
    seconds_elapsed,
    colon_on,
    \* environment
    limits,               \* how far this behaviour is explored: iterations, faults, advances
    iterations,           \* iterations of the while loop started
    now,                  \* seconds of wall time seen to have passed since start
    faults,               \* hardware faults raised so far
    hw,                   \* what the device shows: glyphs and colon
    \* history
    trace,                \* display calls and sleeps of the current iteration
    wdPrev,               \* the write_display call before the last one
    wdLast,               \* the last write_display call
    scrolled,             \* marquee was invoked since the last write_display call
    sinceFetch,           \* duty cycles completed since the last fetch_weather call
    itersSinceFetch,      \* iterations started since the one of the last fetch_weather call
    lastFetch,            \* the two counts and the cache at the last fetch_weather call
    termRequested,        \* a termination request was delivered
    \* the tick schedule of the clock phase, in seconds since the phase's start
    next_tick,            \* the absolute target of the next wake
    monotonic,            \* time.monotonic()
    \* the time source
    ntp_client,           \* TRUE: an NTPClient object, FALSE: None
    time_call,            \* the last get_current_time call: what it met and returned
    custom_calls          \* should_display_custom_text: True returns, and the time of
                          \* the one before the last

fetchVars == <<fetch_pc, attempt, sleeps, outcomes, fetch_ret>>
loopVars == <<pc, cycle_counter, cached_weather_info, last_display_text,
              last_time_minute, last_custom_text_time, seconds_elapsed, colon_on>>
envVars == <<limits, iterations, now, faults, hw>>
histVars == <<trace, wdPrev, wdLast, scrolled, sinceFetch, itersSinceFetch,
              lastFetch, termRequested>>
callVars == <<ntp_client, time_call, custom_calls>>
tickVars == <<next_tick, monotonic>>
configVars == <<display, TIME_DISPLAY, TIME_FORMAT, TEMP_UNIT, SMOOTH_SCROLL,
                CUSTOM_TEXT_ENABLED>>

TimeFormats == {"12"}
TempUnits == {"C", "F"}

(***************************************************************************)
(* fetch_weather: one HTTP attempt and the except clauses                  *)
(***************************************************************************)
\* bodies of the API (numbers in tenths): two well-formed ones and the three
\* malformed shapes
NoBody == [form |-> "none", temp |-> 0, feels_like |-> 0, humidity |-> 0]
WellFormed(t, f, h) == [form |-> "reading", temp |-> t, feels_like |-> f, humidity |-> h]
Malformed(form) == [form |-> form, temp |-> 0, feels_like |-> 0, humidity |-> 0]

ReadingBodies == {WellFormed(204, 176, 550), WellFormed(215, -126, 1000)}
MalformedForms == {"not_json", "missing_key", "wrong_type"}
MalformedBodies == {Malformed(f) : f \in MalformedForms}

TransportErrors == {"Timeout", "ConnectionError", "RequestException"}
ErrorStatuses == {401, 404, 500, 503}

Raise(exc) == [kind |-> "raise", exc |-> exc, status |-> 0, body |-> NoBody]
Response(status, body) == [kind |-> "response", exc |-> "none", status |-> status, body |-> body]

\* what one SESSION.get can meet
AttemptOutcomes ==
    {Raise(e) : e \in TransportErrors}
    \cup {Response(s, NoBody) : s \in ErrorStatuses}
    \cup {Response(200, b) : b \in ReadingBodies \cup MalformedBodies}

\* response.json() on a body that is not JSON raises requests' JSONDecodeError
\* (requests >= 2.27: a RequestException and a ValueError) or the json
\* module's (older requests: a ValueError only)
JsonErrorClasses == {"requests.JSONDecodeError", "json.JSONDecodeError"}

\* the classes an exception is an instance of
ExcBases(exc) ==
    CASE exc = "Timeout" -> {"Timeout", "RequestException"}
      [] exc = "ConnectionError" -> {"ConnectionError", "RequestException"}
      [] exc = "HTTPError" -> {"HTTPError", "RequestException"}
      [] exc = "RequestException" -> {"RequestException"}
      [] exc = "requests.JSONDecodeError" -> {"RequestException", "ValueError"}
      [] exc = "json.JSONDecodeError" -> {"ValueError"}
      [] exc = "KeyError" -> {"KeyError"}
      [] exc = "TypeError" -> {"TypeError"}
      [] OTHER -> {}

\* the try body of one attempt: the exception it raises, "none" when it
\* reaches the return statement
Raised(o, jsonlib) ==
    IF o.kind = "raise" THEN o.exc
    ELSE IF o.status >= 400 THEN "HTTPError"
    ELSE IF o.body.form = "not_json" THEN jsonlib
    ELSE IF o.body.form = "missing_key" THEN "KeyError"
    ELSE IF o.body.form = "wrong_type" THEN "TypeError"
    ELSE "none"

\* the tuple returned on success
Reading(body, unit) ==
    LET temperature == 5 * PyRound(body.temp)
        feels_like == 5 * PyRound(body.feels_like)
        humidity == PyRound(body.humidity)
    IN  IF unit = "F"
        THEN <<celsius_to_fahrenheit(temperature), celsius_to_fahrenheit(feels_like), humidity>>
        ELSE <<temperature, feels_like, humidity>>

\* the except clauses with RequestException placed before HTTPError
ExceptClausesGenericFirst ==
    << [catches |-> {"Timeout"}, policy |-> "retry"],
       [catches |-> {"ConnectionError"}, policy |-> "retry"],
       [catches |-> {"RequestException"}, policy |-> "retry"],
       [catches |-> {"HTTPError"}, policy |-> "fail"],
       [catches |-> {"KeyError", "ValueError", "TypeError"}, policy |-> "fail"] >>

\* the except clauses with an HTTPError clause that retries
ExceptClausesHttpRetry ==
    << [catches |-> {"Timeout"}, policy |-> "retry"],
       [catches |-> {"ConnectionError"}, policy |-> "retry"],
       [catches |-> {"HTTPError"}, policy |-> "retry"],
       [catches |-> {"RequestException"}, policy |-> "retry"],
       [catches |-> {"KeyError", "ValueError", "TypeError"}, policy |-> "fail"] >>

\* the except clauses in source order; "retry": sleep and go on unless this
\* was the last attempt, "fail": return None at once
ExceptClauses ==
    << [catches |-> {"Timeout"}, policy |-> "retry"],
       [catches |-> {"ConnectionError"}, policy |-> "retry"],
       [catches |-> {"HTTPError"}, policy |-> "fail"],
       [catches |-> {"RequestException"}, policy |-> "retry"],
       [catches |-> {"KeyError", "ValueError", "TypeError"}, policy |-> "fail"] >>

\* the first clause that catches exc (0: none does and exc propagates)
MatchClause(exc) ==
    LET hits == {i \in 1..Len(ExceptClauses) : ExceptClauses[i].catches \cap ExcBases(exc) # {}}
    IN  IF hits = {} THEN 0 ELSE CHOOSE i \in hits : \A j \in hits : i <= j

\* a guard that also sleeps after the last attempt
RetryGuardAlways(a) == a < max_retries

\* "if attempt < max_retries - 1" of the retrying clauses
RetryGuard(a) == a < max_retries - 1

\* one pass of the for loop body with loop index a: what it does next
Attempt(a, o, jsonlib, unit) ==
    LET exc == Raised(o, jsonlib)
        i == MatchClause(exc)
    IN  IF exc = "none" THEN [act |-> "return", ret |-> Reading(o.body, unit)]
        ELSE IF i = 0 THEN [act |-> "propagate", ret |-> None]
        ELSE IF ExceptClauses[i].policy = "retry" /\ RetryGuard(a)
             THEN [act |-> "sleep", ret |-> None]
        ELSE [act |-> "return", ret |-> None]

RECURSIVE FetchFrom(_, _, _, _)
\* the for loop from index a on, run to its return, against a script of outcomes
FetchFrom(a, script, jsonlib, unit) ==
    IF a >= max_retries THEN None
    ELSE LET r == Attempt(a, script[a + 1], jsonlib, unit)
         IN  IF r.act = "sleep" THEN FetchFrom(a + 1, script, jsonlib, unit)
             ELSE r.ret

fetch_weather(script, jsonlib, unit) == FetchFrom(0, script, jsonlib, unit)

\* one attempt of fetch_weather, as a step
FetchAttempt(o, jsonlib) ==
    /\ fetch_pc = "attempt"
    /\ attempt < max_retries
    /\ LET r == Attempt(attempt, o, jsonlib, TEMP_UNIT)
           entry == [out |-> o, raised |-> Raised(o, jsonlib)]
       IN  /\ outcomes' = Append(outcomes, entry)
           /\ IF r.act = "sleep"
              THEN /\ sleeps' = sleeps + 1
                   /\ attempt' = attempt + 1
                   /\ fetch_pc' = IF attempt + 1 < max_retries THEN "attempt" ELSE "returned"
                   /\ fetch_ret' = None
              ELSE /\ sleeps' = sleeps
                   /\ attempt' = attempt
                   /\ fetch_pc' = "returned"
                   /\ fetch_ret' = r.ret
    /\ UNCHANGED <<configVars, loopVars, envVars, histVars, callVars, tickVars>>


(***************************************************************************)
(* The wall clock                                                          *)
(***************************************************************************)
\* the values a read of the clock can return when the last read returned t
Advances(t) == {t} \cup (IF t + TimeStep <= limits.advances * TimeStep THEN {t + TimeStep} ELSE {})

Wall(t) == (StartWall + t) % SecondsPerDay
tm_hour(t) == Wall(t) \div (60 * SecondsPerMinute)
tm_min(t) == (Wall(t) \div SecondsPerMinute) % 60
\* time.time()
time_time(t) == StartWall + t

(***************************************************************************)
(* The device (DisplayPort) and the calls on it.  Inside one step of       *)
(* main_loop the statements run on a context c; the f-th device call of    *)
(* the step raises (f = 0: none does), and after a raise (c.ok false) the  *)
(* remaining statements of the step do not run.                            *)
(***************************************************************************)
BlankGlyphs == <<" ", " ", " ", " ">>
ScrollResidue == <<"~">>
Garbled == <<"?">>

Event(op, text, secs, ok) == [op |-> op, text |-> text, secs |-> secs, ok |-> ok]

NoTimeCall == [called |-> FALSE, queries |-> 0, outcome |-> "none", tx_time |-> 0,
               local |-> 0, ret |-> 0, raised |-> FALSE]
NoCustomCalls == [shown |-> 0, prev |-> -1]

NoCall == [called |-> FALSE, text |-> NoneText, cache |-> NoneText, hw |-> FALSE,
           ok |-> FALSE, afterScroll |-> FALSE]

Ctx == [last |-> last_display_text, hw |-> hw, trace |-> trace, wdPrev |-> wdPrev,
        wdLast |-> wdLast, scrolled |-> scrolled, n |-> 0, ok |-> TRUE]

Suffix(s, k) == IF Len(s) <= k THEN s ELSE SubSeq(s, Len(s) - k + 1, Len(s))

HwCall(c, f, op, text, hwOk, hwFail) ==
    IF ~c.ok THEN c
    ELSE IF c.n + 1 = f
         THEN [c EXCEPT !.n = @ + 1, !.ok = FALSE, !.hw = hwFail,
                        !.trace = Append(@, Event(op, text, 0, FALSE))]
         ELSE [c EXCEPT !.n = @ + 1, !.hw = hwOk,
                        !.trace = Append(@, Event(op, text, 0, TRUE))]

\* display.print(text)
DevPrint(c, f, text) ==
    HwCall(c, f, "print", text, [c.hw EXCEPT !.glyphs = Suffix(text, 4)],
           [c.hw EXCEPT !.glyphs = Garbled])
\* display.show()
DevShow(c, f) == HwCall(c, f, "show", <<>>, c.hw, c.hw)
\* display.colon = on
DevColon(c, f, on) ==
    HwCall(c, f, IF on THEN "colon_on" ELSE "colon_off", <<>>,
           [c.hw EXCEPT !.colon = on], c.hw)
\* display.fill(0)
DevFill(c, f) ==
    HwCall(c, f, "fill", <<>>, [glyphs |-> BlankGlyphs, colon |-> FALSE],
           [c.hw EXCEPT !.glyphs = Garbled])
\* display.marquee(text, loop=False)
DevMarquee(c, f, text) ==
    LET d == HwCall(c, f, "marquee", text, [c.hw EXCEPT !.glyphs = ScrollResidue],
                    [c.hw EXCEPT !.glyphs = ScrollResidue])
    IN  IF c.ok THEN [d EXCEPT !.scrolled = TRUE] ELSE d
\* time.sleep(secs) in display code and in main_loop
Sleep(c, secs) ==
    IF c.ok THEN [c EXCEPT !.trace = Append(@, Event("sleep", <<>>, secs, TRUE))] ELSE c
\* the tick's sleep of the residual up to next_tick, the k-th target
SleepUntilTick(c, k) ==
    IF c.ok THEN [c EXCEPT !.trace = Append(@, Event("sleep_until", <<>>, k, TRUE))] ELSE c
\* the time the work of a tick took, when it is not negligible
Work(c, secs) ==
    IF c.ok /\ secs > 0
    THEN [c EXCEPT !.trace = Append(@, Event("work", <<>>, secs, TRUE))] ELSE c
\* last_display_text = v
SetLast(c, v) == IF c.ok THEN [c EXCEPT !.last = v] ELSE c

(***************************************************************************)
(* The render cache and the display functions                              *)
(***************************************************************************)
\* a write_display without the cache test
WriteNeededAlways(text, last) == TRUE

\* "if text != last_display_text"
WriteNeeded(text, last) == text # last

\* a write_display that records the text before the hardware took it
write_display_cache_first(c, f, text) ==
    IF ~c.ok \/ ~display THEN c
    ELSE LET differs == WriteNeeded(text, c.last)
             d == IF differs THEN DevShow(DevPrint(SetLast(c, text), f, text), f) ELSE c
         IN  [d EXCEPT !.wdPrev = c.wdLast,
                       !.wdLast = [called |-> TRUE, text |-> text, cache |-> c.last,
                                   hw |-> differs, ok |-> d.ok,
                                   afterScroll |-> c.scrolled],
                       !.scrolled = FALSE]

write_display(c, f, text) ==
    IF ~c.ok \/ ~display THEN c
    ELSE LET differs == WriteNeeded(text, c.last)
             d == IF differs THEN SetLast(DevShow(DevPrint(c, f, text), f), text) ELSE c
         IN  [d EXCEPT !.wdPrev = c.wdLast,
                       !.wdLast = [called |-> TRUE, text |-> text, cache |-> c.last,
                                   hw |-> differs, ok |-> d.ok,
                                   afterScroll |-> c.scrolled],
                       !.scrolled = FALSE]

\* a build_temp_string that converts to Fahrenheit when rendering
build_temp_string_converting(temp, unit) ==
    LET shown == IF unit = "F" THEN celsius_to_fahrenheit(temp) ELSE temp
    IN  IF shown < 0 THEN <<"-">> \o IntStr(IntAbs(shown)) \o <<unit>>
        ELSE IntStr(shown \div 5) \o <<unit>>

\* lines 314-326, and the same formatting in display_temperature (335-338)
build_temp_string(temp, unit) ==
    IF temp < 0 THEN <<"-">> \o IntStr(IntAbs(temp)) \o <<unit>>
    ELSE IntStr(temp \div 5) \o <<unit>>

\* a display_temperature that pads without truncating
display_temperature_untruncated(c, f, temp, unit) ==
    IF ~display THEN c
    ELSE write_display(c, f, RJust(build_temp_string(temp, unit), 4, " "))

display_temperature(c, f, temp, unit) ==
    IF ~display THEN c
    ELSE write_display(c, f, RJust(Prefix(build_temp_string(temp, unit), 4), 4, " "))

\* an hour conversion without the "or 12"
DisplayHourModulo(hour, fmt) == IF fmt = "12" THEN hour % 12 ELSE hour

\* "hour % 12 or 12" in 12-hour mode
DisplayHour(hour, fmt) ==
    IF fmt = "12" THEN (IF hour % 12 = 0 THEN 12 ELSE hour % 12) ELSE hour

\* display_time when time.localtime() returns the time t
display_time(c, f, t) ==
    IF ~display THEN c
    ELSE write_display(c, f, Fmt2d(DisplayHour(tm_hour(t), TIME_FORMAT)) \o Fmt02d(tm_min(t)))

display_humidity(c, f, humidity) ==
    IF ~display THEN c
    ELSE write_display(c, f, <<"r", "H">> \o Fmt02d(humidity))

\* a scroll_combined_label_value followed by a static hold
scroll_combined_then_hold(c, f, label, value_text) ==
    IF ~display THEN c
    ELSE Sleep(SetLast(DevMarquee(DevFill(c, f), f,
                                  label \o <<" ">> \o value_text \o <<" ", " ", " ">>),
                       NoneText), MetricMessageDelay)

\* lines 373-393
scroll_combined_label_value(c, f, label, value_text) ==
    IF ~display THEN c
    ELSE SetLast(DevMarquee(DevFill(c, f), f, label \o <<" ">> \o value_text \o <<" ", " ", " ">>),
                 NoneText)

\* a display_metric_with_message that shows the value before its label
display_metric_value_first(c, f, message, temp, unit) ==
    IF ~display THEN c
    ELSE SetLast(Sleep(DevMarquee(DevFill(display_temperature(c, f, temp, unit), f), f, message),
                       MetricMessageDelay), NoneText)

\* lines 489-510, display_function being display_temperature
display_metric_with_message(c, f, message, temp, unit) ==
    IF ~display THEN c
    ELSE display_temperature(
             SetLast(Sleep(DevMarquee(DevFill(c, f), f, message), MetricMessageDelay), NoneText),
             f, temp, unit)

CUSTOM_TEXT == <<"H", "i", " ", "A", "l", "l">>
IsBlank(text) == \A i \in 1..Len(text) : text[i] = " "

\* a display_custom_text that does not test the display handle
display_custom_text_unguarded(c, f) ==
    IF ~CUSTOM_TEXT_ENABLED \/ IsBlank(CUSTOM_TEXT) THEN c
    ELSE SetLast(Sleep(DevMarquee(DevFill(c, f), f, CUSTOM_TEXT), CUSTOM_TEXT_DURATION), NoneText)

\* lines 513-533
display_custom_text(c, f) ==
    IF ~display \/ ~CUSTOM_TEXT_ENABLED \/ IsBlank(CUSTOM_TEXT) THEN c
    ELSE SetLast(Sleep(DevMarquee(DevFill(c, f), f, CUSTOM_TEXT), CUSTOM_TEXT_DURATION), NoneText)

\* a should_display_custom_text that answers once per duty cycle
should_display_custom_text_every_cycle(current_time) ==
    IF ~CUSTOM_TEXT_ENABLED \/ IsBlank(CUSTOM_TEXT)
    THEN [ret |-> FALSE, last |-> last_custom_text_time]
    ELSE [ret |-> TRUE, last |-> current_time]

\* a should_display_custom_text that records the time of every check
should_display_custom_text_touching(current_time) ==
    IF ~CUSTOM_TEXT_ENABLED \/ IsBlank(CUSTOM_TEXT)
    THEN [ret |-> FALSE, last |-> last_custom_text_time]
    ELSE IF last_custom_text_time = -1
    THEN [ret |-> TRUE, last |-> current_time]
    ELSE [ret |-> current_time - last_custom_text_time >= CUSTOM_TEXT_INTERVAL * SecondsPerMinute,
          last |-> current_time]

\* should_display_custom_text when time.time() returns current_time:
\* the value returned and the new last_custom_text_time
should_display_custom_text(current_time) ==
    IF ~CUSTOM_TEXT_ENABLED \/ IsBlank(CUSTOM_TEXT)
    THEN [ret |-> FALSE, last |-> last_custom_text_time]
    ELSE IF last_custom_text_time = -1
    THEN [ret |-> TRUE, last |-> current_time]
    ELSE IF current_time - last_custom_text_time >= CUSTOM_TEXT_INTERVAL * SecondsPerMinute
    THEN [ret |-> TRUE, last |-> current_time]
    ELSE [ret |-> FALSE, last |-> last_custom_text_time]

(***************************************************************************)
(* main_loop                                                               *)
(***************************************************************************)
\* the globals and history a step leaves behind
Commit(c) ==
    /\ last_display_text' = c.last
    /\ hw' = c.hw
    /\ trace' = c.trace
    /\ wdPrev' = c.wdPrev
    /\ wdLast' = c.wdLast
    /\ scrolled' = c.scrolled
    /\ faults' = IF c.ok THEN faults ELSE faults + 1

\* f names the device call that raises: there is one iff the step raised
FaultChoice(c, f) == (f = 0 <=> c.ok) /\ (f > 0 => faults < limits.faults)

\* a clock phase of TIME_DISPLAY ticks
total_seconds_as_configured == TIME_DISPLAY
\* "total_seconds = TIME_DISPLAY * 2"
total_seconds == TIME_DISPLAY * 2

\* the seconds the work of one tick can take
WorkTimes == 0..limits.overrun

\* a tick that sleeps a full second whatever its work took
sleep_duration_relative(target, reached) == 1
\* "sleep_duration = next_tick - time.monotonic()"
sleep_duration(target, reached) == target - reached

\* lines 572-582 (display present) or 600 (absent)
ClockStart ==
    /\ pc = "clock"
    /\ iterations < limits.iters
    /\ iterations' = iterations + 1
    /\ UNCHANGED limits
    /\ itersSinceFetch' = IF itersSinceFetch < API_REFRESH_CYCLES
                          THEN itersSinceFetch + 1 ELSE itersSinceFetch
    /\ IF display
       THEN \E f \in 0..2, t1 \in Advances(now) : \E t2 \in Advances(t1) :
              LET c == display_time([Ctx EXCEPT !.trace = <<>>], f, t2)
              IN  /\ FaultChoice(c, f)
                  /\ Commit(c)
                  /\ last_time_minute' = tm_min(t1)
                  /\ now' = t2
                  /\ IF c.ok
                     THEN /\ seconds_elapsed' = 0 /\ colon_on' = FALSE /\ pc' = "tick"
                          /\ next_tick' = 0 /\ monotonic' = 0
                     ELSE /\ UNCHANGED <<seconds_elapsed, colon_on, tickVars>>
                          /\ pc' = "cooldown"
       ELSE /\ Commit(Sleep([Ctx EXCEPT !.trace = <<>>], total_seconds))
            /\ pc' = "custom"
            /\ UNCHANGED <<last_time_minute, now, seconds_elapsed, colon_on, tickVars>>
    /\ UNCHANGED <<cycle_counter, cached_weather_info, last_custom_text_time,
                   sinceFetch, lastFetch, termRequested>>
    /\ UNCHANGED <<configVars, fetchVars, callVars>>

\* a tick that re-renders the digits whatever the minute
MinuteChangedAlways(minute, last) == TRUE
\* "if now_struct.tm_min != last_time_minute"
MinuteChanged(minute, last) == minute # last

\* one pass of the while loop of lines 583-598
ClockTick ==
    /\ pc = "tick"
    /\ seconds_elapsed < total_seconds
    /\ \E f \in 0..4, t1 \in Advances(now), w \in WorkTimes : \E t2 \in Advances(t1) :
         LET on == ~colon_on
             c1 == DevShow(DevColon(Ctx, f, on), f)
             rollover == c1.ok /\ MinuteChanged(tm_min(t1), last_time_minute)
             c2 == Work(IF rollover THEN display_time(c1, f, t2) ELSE c1, w)
             target == next_tick + 1
             reached == monotonic + w
             c3 == IF sleep_duration(target, reached) > 0
                   THEN SleepUntilTick(c2, target) ELSE c2
         IN  /\ (~c1.ok => t1 = now)
             /\ (~rollover => t2 = t1)
             /\ (~c2.ok => w = 0)
             /\ FaultChoice(c3, f)
             /\ Commit(c3)
             /\ next_tick' = IF c3.ok THEN target ELSE next_tick
             /\ monotonic' = IF ~c3.ok THEN monotonic
                             ELSE IF sleep_duration(target, reached) > 0
                                  THEN reached + sleep_duration(target, reached)
                                  ELSE reached
             /\ colon_on' = on
             /\ now' = t2
             /\ last_time_minute' = IF rollover THEN tm_min(t1) ELSE last_time_minute
             /\ seconds_elapsed' = IF c3.ok THEN seconds_elapsed + 1 ELSE seconds_elapsed
             /\ pc' = IF ~c3.ok THEN "cooldown"
                      ELSE IF seconds_elapsed + 1 < total_seconds THEN "tick"
                      ELSE "custom"
    /\ UNCHANGED <<cycle_counter, cached_weather_info, last_custom_text_time,
                   sinceFetch, itersSinceFetch, lastFetch, termRequested>>
    /\ UNCHANGED <<limits, iterations, configVars, fetchVars, callVars>>

\* lines 603-604
CustomPhase ==
    /\ pc = "custom"
    /\ \E f \in 0..2, t \in Advances(now) :
         LET reads == CUSTOM_TEXT_ENABLED /\ ~IsBlank(CUSTOM_TEXT)
             r == should_display_custom_text(time_time(t))
             c == IF r.ret THEN display_custom_text(Ctx, f) ELSE Ctx
         IN  /\ (~reads => t = now)
             /\ FaultChoice(c, f)
             /\ Commit(c)
             /\ now' = t
             /\ last_custom_text_time' = r.last
             /\ custom_calls' = IF r.ret
                                THEN [shown |-> custom_calls.shown + 1,
                                      prev |-> last_custom_text_time]
                                ELSE custom_calls
             /\ pc' = IF c.ok THEN "weather" ELSE "cooldown"
    /\ UNCHANGED <<cycle_counter, cached_weather_info, last_time_minute,
                   seconds_elapsed, colon_on,
                   sinceFetch, itersSinceFetch, lastFetch, termRequested>>
    /\ UNCHANGED <<limits, iterations, configVars, fetchVars, ntp_client, time_call, tickVars>>

\* a fetch test that ignores the cycle counter
NeedsFetchOnlyWhenEmpty(counter, cache) == cache = None

\* "if cycle_counter == 0 or cached_weather_info is None"
NeedsFetch(counter, cache) == counter = 0 \/ cache = None

\* API bodies of the coldest places: whole Celsius degrees down to -limits.cold
ColdBodies ==
    {WellFormed(-10 * c, -10 * c - 50, 550) : c \in {k \in 1..limits.cold : 10 * k >= 9 * limits.cold}}

\* what the attempts of a fetch meet when main_loop calls fetch_weather
MainOutcomes ==
    {Raise("Timeout"), Response(401, NoBody)}
    \cup {Response(200, b) : b \in ReadingBodies \cup ColdBodies}

\* a refresh that keeps the cached reading when the fetch fails
RefreshedKeepingStale(cache, fetched) == IF fetched = None THEN cache ELSE fetched
\* "cached_weather_info = fetch_weather()"
Refreshed(cache, fetched) == fetched

\* lines 607-608, the fetch run to its return, then the test of line 610
WeatherFetch ==
    /\ pc = "weather"
    /\ NeedsFetch(cycle_counter, cached_weather_info)
    /\ \E script \in [1..max_retries -> MainOutcomes], jsonlib \in JsonErrorClasses :
         LET fetched == fetch_weather(script, jsonlib, TEMP_UNIT)
         IN  /\ cached_weather_info' = Refreshed(cached_weather_info, fetched)
             /\ lastFetch' = [cycles |-> sinceFetch, iters |-> itersSinceFetch,
                              hadCache |-> cached_weather_info # None,
                              ok |-> fetched # None]
    /\ pc' = IF cached_weather_info' # None THEN "out" ELSE "incr"
    /\ sinceFetch' = 0
    /\ itersSinceFetch' = 0
    /\ UNCHANGED <<cycle_counter, last_display_text, last_time_minute,
                   last_custom_text_time, seconds_elapsed, colon_on, termRequested>>
    /\ UNCHANGED <<envVars, trace, wdPrev, wdLast, scrolled>>
    /\ UNCHANGED <<configVars, fetchVars, callVars, tickVars>>

\* line 607 false, then the test of line 610
WeatherCached ==
    /\ pc = "weather"
    /\ ~NeedsFetch(cycle_counter, cached_weather_info)
    /\ pc' = IF cached_weather_info # None THEN "out" ELSE "incr"
    /\ UNCHANGED <<cycle_counter, cached_weather_info, last_display_text, last_time_minute,
                   last_custom_text_time, seconds_elapsed, colon_on>>
    /\ UNCHANGED <<envVars, histVars, configVars, fetchVars, callVars, tickVars>>

\* what a render step leaves alone
RenderFrame ==
    /\ UNCHANGED <<cycle_counter, cached_weather_info, last_time_minute,
                   last_custom_text_time, seconds_elapsed, colon_on, now,
                   sinceFetch, itersSinceFetch, lastFetch, termRequested>>
    /\ UNCHANGED <<limits, iterations, configVars, fetchVars, callVars, tickVars>>

\* lines 615-617 (scrolling style) or 625-627 (paged style)
RenderOut ==
    /\ pc = "out"
    /\ \E f \in 0..4 :
         LET temperature == cached_weather_info[1]
             c == IF SMOOTH_SCROLL
                  THEN scroll_combined_label_value(Ctx, f, <<"O", "u", "t">>,
                           build_temp_string(temperature, TEMP_UNIT))
                  ELSE Sleep(display_metric_with_message(Ctx, f, <<"O", "u", "t">>,
                                 temperature, TEMP_UNIT), TEMP_DISPLAY)
         IN  /\ FaultChoice(c, f)
             /\ Commit(c)
             /\ pc' = IF c.ok THEN "feel" ELSE "cooldown"
    /\ RenderFrame

\* lines 618-620 or 628-630
RenderFeel ==
    /\ pc = "feel"
    /\ \E f \in 0..4 :
         LET feels_like == cached_weather_info[2]
             c == IF SMOOTH_SCROLL
                  THEN scroll_combined_label_value(Ctx, f, <<"F", "E", "E", "L">>,
                           build_temp_string(feels_like, TEMP_UNIT))
                  ELSE Sleep(display_metric_with_message(Ctx, f, <<"f", "e", "e", "l">>,
                                 feels_like, TEMP_UNIT), FEELS_LIKE_DISPLAY)
         IN  /\ FaultChoice(c, f)
             /\ Commit(c)
             /\ pc' = IF c.ok THEN "hum" ELSE "cooldown"
    /\ RenderFrame

\* lines 621-622 or 631-632
RenderHumidity ==
    /\ pc = "hum"
    /\ \E f \in 0..2 :
         LET humidity == cached_weather_info[3]
             c == IF SMOOTH_SCROLL
                  THEN scroll_combined_label_value(Ctx, f, <<"r", "H">>, Fmt02d(humidity))
                  ELSE Sleep(display_humidity(Ctx, f, humidity), HUMIDITY_DISPLAY)
         IN  /\ FaultChoice(c, f)
             /\ Commit(c)
             /\ pc' = IF c.ok THEN "incr" ELSE "cooldown"
    /\ RenderFrame

\* "(cycle_counter + 1) % API_REFRESH_CYCLES"
NextCounter(counter) == (counter + 1) % API_REFRESH_CYCLES

\* line 634
EndCycle ==
    /\ pc = "incr"
    /\ cycle_counter' = NextCounter(cycle_counter)
    /\ sinceFetch' = IF sinceFetch <= API_REFRESH_CYCLES THEN sinceFetch + 1 ELSE sinceFetch
    /\ pc' = "clock"
    /\ UNCHANGED <<cached_weather_info, last_display_text, last_time_minute,
                   last_custom_text_time, seconds_elapsed, colon_on>>
    /\ UNCHANGED <<envVars, trace, wdPrev, wdLast, scrolled, itersSinceFetch, lastFetch,
                   termRequested>>
    /\ UNCHANGED <<configVars, fetchVars, callVars, tickVars>>

\* an except clause that leaves the loop
CooldownNextStop == "stopped"

\* an except clause that falls through to the counter's increment
CooldownNextCounted == "incr"

\* where "except Exception" leads after its sleep: the top of the while loop
CooldownNext == "clock"

\* lines 639-642
Cooldown ==
    /\ pc = "cooldown"
    /\ Commit(Sleep(Ctx, COOLDOWN))
    /\ pc' = CooldownNext
    /\ UNCHANGED <<cycle_counter, cached_weather_info, last_time_minute,
                   last_custom_text_time, seconds_elapsed, colon_on, now,
                   sinceFetch, itersSinceFetch, lastFetch, termRequested>>
    /\ UNCHANGED <<limits, iterations, configVars, fetchVars, callVars, tickVars>>

\* the process has ended: its memory is gone, the device keeps what it shows
Exit(device) ==
    /\ pc' = "stopped"
    /\ hw' = device
    /\ termRequested' = TRUE
    /\ cycle_counter' = 0
    /\ cached_weather_info' = None
    /\ last_display_text' = NoneText
    /\ last_time_minute' = -1
    /\ last_custom_text_time' = -1
    /\ seconds_elapsed' = 0
    /\ colon_on' = FALSE
    /\ iterations' = 0
    /\ now' = 0
    /\ faults' = 0
    /\ trace' = <<>>
    /\ wdPrev' = NoCall
    /\ wdLast' = NoCall
    /\ scrolled' = FALSE
    /\ sinceFetch' = 0
    /\ itersSinceFetch' = 0
    /\ lastFetch' = [cycles |-> 0, iters |-> 0, hadCache |-> FALSE, ok |-> FALSE]
    /\ time_call' = NoTimeCall
    /\ custom_calls' = NoCustomCalls
    /\ next_tick' = 0
    /\ monotonic' = 0
    /\ UNCHANGED <<limits, configVars, fetchVars, ntp_client>>

\* SIGINT or SIGTERM: signal_handler runs at the point main_loop has reached;
\* sys.exit ends the process, an exception of the handler's device calls is
\* raised at that point instead: inside the try it is caught by "except
\* Exception", inside the except clause's sleep it ends main_loop
Signal ==
    /\ pc # "stopped"
    /\ \E f \in 0..2 :
         LET c == IF display THEN DevShow(DevFill(Ctx, f), f) ELSE Ctx
         IN  /\ FaultChoice(c, f)
             /\ IF c.ok \/ pc = "cooldown"
                THEN Exit(c.hw)
                ELSE /\ Commit(c)
                     /\ pc' = "cooldown"
                     /\ termRequested' = TRUE
                     /\ UNCHANGED <<cycle_counter, cached_weather_info, last_time_minute,
                                    last_custom_text_time, seconds_elapsed, colon_on, now,
                                    sinceFetch, itersSinceFetch, lastFetch>>
                     /\ UNCHANGED <<limits, iterations, configVars, fetchVars, callVars, tickVars>>

\* KeyboardInterrupt raised in main_loop: "break" (lines 636-638), or out of
\* the except clause's sleep; main_loop returns and the process ends
KeyboardInterrupt ==
    /\ pc # "stopped"
    /\ Exit(hw)

(***************************************************************************)
(* get_current_time                                                        *)
(***************************************************************************)
\* what ntp_client.request and time.localtime(response.tx_time) can meet
NtpOutcomes == {"ok", "NTPException", "socket.timeout", "socket.gaierror", "OverflowError"}

\* the classes an exception of the query is an instance of
NtpExcBases(exc) ==
    CASE exc = "NTPException" -> {"NTPException", "Exception"}
      [] exc = "socket.timeout" -> {"OSError", "Exception"}
      [] exc = "socket.gaierror" -> {"OSError", "Exception"}
      [] exc = "OverflowError" -> {"Exception"}
      [] OTHER -> {}

\* a get_current_time that catches the NTP protocol error only
TimeExceptClausesNtpOnly == <<{"NTPException"}>>

\* "except ntplib.NTPException" and "except Exception"
TimeExceptClauses == <<{"NTPException"}, {"Exception"}>>

TimeCaught(exc) ==
    \E i \in 1..Len(TimeExceptClauses) : TimeExceptClauses[i] \cap NtpExcBases(exc) # {}

\* lines 470-486: the number of queries made, the time returned, and whether
\* an exception leaves the function
get_current_time(client, outcome, tx_time, local) ==
    IF ~client THEN [queries |-> 0, ret |-> local, raised |-> FALSE]
    ELSE IF outcome = "ok" THEN [queries |-> 1, ret |-> tx_time, raised |-> FALSE]
    ELSE IF TimeCaught(outcome) THEN [queries |-> 1, ret |-> local, raised |-> FALSE]
    ELSE [queries |-> 1, ret |-> local, raised |-> TRUE]

\* how far the network time is ahead of the system clock
NtpSkews == {0, SecondsPerMinute}

\* a call of get_current_time at the wall time now
GetCurrentTime ==
    /\ \E outcome \in NtpOutcomes, skew \in NtpSkews :
         LET r == get_current_time(ntp_client, outcome, now + skew, now)
         IN  time_call' = [called |-> TRUE, queries |-> r.queries, outcome |-> outcome,
                           tx_time |-> now + skew, local |-> now, ret |-> r.ret,
                           raised |-> r.raised]
    /\ UNCHANGED <<configVars, fetchVars, loopVars, envVars, histVars, ntp_client, custom_calls, tickVars>>

vars == <<configVars, fetchVars, loopVars, envVars, histVars, callVars, tickVars>>

\* the globals of lines 195-204, main_loop's locals, the device and the history
InitGlobals ==
    /\ pc = "clock"
    /\ cycle_counter = 0
    /\ cached_weather_info = None
    /\ last_display_text = NoneText
    /\ last_time_minute = -1
    /\ last_custom_text_time = -1
    /\ seconds_elapsed = 0
    /\ colon_on = FALSE
    /\ iterations = 0
    /\ faults = 0
    /\ hw = [glyphs |-> BlankGlyphs, colon |-> FALSE]
    /\ trace = <<>>
    /\ wdPrev = NoCall
    /\ wdLast = NoCall
    /\ scrolled = FALSE
    /\ sinceFetch = 0
    /\ itersSinceFetch = 0
    /\ lastFetch = [cycles |-> 0, iters |-> 0, hadCache |-> FALSE, ok |-> FALSE]
    /\ termRequested = FALSE
    /\ next_tick = 0
    /\ monotonic = 0

InitConfig ==
    /\ display \in BOOLEAN
    /\ TIME_DISPLAY \in 1..MaxTimeDisplay
    /\ TIME_FORMAT \in TimeFormats
    /\ TEMP_UNIT \in TempUnits
    /\ SMOOTH_SCROLL \in BOOLEAN
    /\ CUSTOM_TEXT_ENABLED \in BOOLEAN

\* the globals of lines 195-204 and main_loop's entry (line 566)
InitLoop ==
    /\ now = 0
    /\ InitGlobals

FetchIdle ==
    /\ fetch_pc = "idle"
    /\ attempt = 0
    /\ sleeps = 0
    /\ outcomes = <<>>
    /\ fetch_ret = None

\* initialize_ntp has returned, get_current_time and
\* should_display_custom_text have not been called
CallsIdle ==
    /\ time_call = NoTimeCall
    /\ custom_calls = NoCustomCalls

\* initialize_ntp of the main program: NTPClient() constructed
NtpReady == ntp_client = TRUE /\ CallsIdle

\* a few iterations in which device calls can raise
Init ==
    /\ InitConfig /\ InitLoop /\ FetchIdle /\ NtpReady
    /\ limits = [iters |-> MaxIterations, faults |-> MaxFaults, advances |-> 0, overrun |-> 0, cold |-> 0]

\* a few iterations in which the wall clock advances
InitTime ==
    /\ InitConfig /\ InitLoop /\ FetchIdle /\ NtpReady
    /\ limits = [iters |-> MaxIterations, faults |-> 0, advances |-> MaxAdvances, overrun |-> 0, cold |-> 0]

\* more than one refresh period of duty cycles, with a single device fault
InitLong ==
    /\ InitConfig /\ InitLoop /\ FetchIdle /\ NtpReady
    /\ limits = [iters |-> API_REFRESH_CYCLES + MaxExtraCycles, faults |-> 1, advances |-> 0, overrun |-> 0, cold |-> 0]

Next ==
    \/ ClockStart
    \/ ClockTick
    \/ CustomPhase
    \/ WeatherFetch
    \/ WeatherCached
    \/ RenderOut
    \/ RenderFeel
    \/ RenderHumidity
    \/ EndCycle
    \/ Cooldown
    \/ Signal
    \/ KeyboardInterrupt

Spec == Init /\ [][Next]_vars

SpecTime == InitTime /\ [][Next]_vars

SpecLong == InitLong /\ [][Next]_vars

\* the custom message enabled: two duty cycles in which the wall clock
\* advances, with a single device fault
InitCustom ==
    /\ InitConfig /\ InitLoop /\ FetchIdle /\ NtpReady
    /\ CUSTOM_TEXT_ENABLED
    /\ limits = [iters |-> MaxIterations - 1, faults |-> 1, advances |-> MaxAdvances, overrun |-> 0, cold |-> 0]

SpecCustom == InitCustom /\ [][Next]_vars

\* the wall times at which a clock phase is started: every hour of the day,
\* at the first and the last minute
StartTimes == {TimeStep + h * 60 * SecondsPerMinute + m * SecondsPerMinute :
                  h \in 0..23, m \in {0, 59}}

\* one clock phase at any hour in either time format, and calls of
\* get_current_time
InitClock ==
    /\ display \in BOOLEAN
    /\ TIME_DISPLAY \in 1..MaxTimeDisplay
    /\ TIME_FORMAT \in {"12", "24"}
    /\ TEMP_UNIT = "C"
    /\ SMOOTH_SCROLL = FALSE
    /\ CUSTOM_TEXT_ENABLED = FALSE
    /\ InitGlobals /\ FetchIdle /\ CallsIdle
    /\ ntp_client \in BOOLEAN
    /\ now \in StartTimes
    /\ limits = [iters |-> 1, faults |-> 0, advances |-> 0, overrun |-> 0, cold |-> 0]

NextClock ==
    \/ GetCurrentTime
    \/ ClockStart
    \/ ClockTick

SpecClock == InitClock /\ [][NextClock]_vars

\* one clock phase whose ticks' work takes up to MaxOverrun seconds
InitTick ==
    /\ display \in BOOLEAN
    /\ TIME_DISPLAY \in 1..MaxTimeDisplay
    /\ TIME_FORMAT = "12"
    /\ TEMP_UNIT = "C"
    /\ SMOOTH_SCROLL = FALSE
    /\ CUSTOM_TEXT_ENABLED = FALSE
    /\ InitLoop /\ FetchIdle /\ NtpReady
    /\ limits = [iters |-> 1, faults |-> 0, advances |-> 0, overrun |-> MaxOverrun, cold |-> 0]

NextTick ==
    \/ ClockStart
    \/ ClockTick

SpecTick == InitTick /\ [][NextTick]_vars

\* one duty cycle started at any hour, in either time format, whose fetch can
\* meet the readings of the coldest places
InitGlyphs ==
    /\ display = TRUE
    /\ TIME_DISPLAY = 1
    /\ TIME_FORMAT \in {"12", "24"}
    /\ TEMP_UNIT \in TempUnits
    /\ SMOOTH_SCROLL = FALSE
    /\ CUSTOM_TEXT_ENABLED = FALSE
    /\ InitGlobals /\ FetchIdle /\ NtpReady
    /\ now \in StartTimes
    /\ limits = [iters |-> 1, faults |-> 0, advances |-> 0, overrun |-> 0, cold |-> MaxCold]

NextGlyphs ==
    \/ ClockStart
    \/ ClockTick
    \/ CustomPhase
    \/ WeatherFetch
    \/ RenderOut
    \/ RenderFeel
    \/ RenderHumidity

SpecGlyphs == InitGlyphs /\ [][NextGlyphs]_vars

\* fetch_weather has just been called
InitFetch ==
    /\ InitConfig
    /\ InitLoop
    /\ NtpReady
    /\ limits = [iters |-> 0, faults |-> 0, advances |-> 0, overrun |-> 0, cold |-> 0]
    /\ fetch_pc = "attempt"
    /\ attempt = 0
    /\ sleeps = 0
    /\ outcomes = <<>>
    /\ fetch_ret = None

NextFetch == \E o \in AttemptOutcomes, jsonlib \in JsonErrorClasses : FetchAttempt(o, jsonlib)

SpecFetch == InitFetch /\ [][NextFetch]_vars

(***************************************************************************)
(* Properties                                                              *)
(***************************************************************************)
Last(seq) == seq[Len(seq)]
CountOps(ops) == Cardinality({i \in 1..Len(trace) : trace[i].op \in ops /\ trace[i].ok})
ColonOps == {"colon_on", "colon_off"}

\* C1: with a display, the clock phase has made exactly TIME_DISPLAY ticks,
\* one colon toggle and one one-second wait each, when the engine moves on to
\* the custom-message phase.
C1_ClockPhaseTicks ==
    (display /\ pc = "custom") =>
        /\ CountOps(ColonOps) = TIME_DISPLAY
        /\ CountOps({"sleep_until"}) = TIME_DISPLAY

\* the range of the counter, and what one step may do to it
C2_Range ==
    /\ cycle_counter \in 0..(API_REFRESH_CYCLES - 1)
    /\ sinceFetch <= API_REFRESH_CYCLES
    /\ (sinceFetch = API_REFRESH_CYCLES => cycle_counter = 0)
C2_Step ==
    /\ (cycle_counter' # cycle_counter /\ pc' # "stopped") => pc = "incr"
    /\ (pc = "incr" /\ pc' = "clock") =>
           cycle_counter' = (cycle_counter + 1) % API_REFRESH_CYCLES
    /\ (pc = "weather" /\ pc' \in {"out", "incr"} /\ sinceFetch = API_REFRESH_CYCLES) =>
           (sinceFetch' = 0 /\ lastFetch'.cycles = API_REFRESH_CYCLES)

\* C2: cycle_counter stays in [0, N); it changes only at the end of a
\* completed duty cycle, by one modulo N; at most N duty cycles are completed
\* without a fetch, and the weather phase that follows the N-th calls
\* fetch_weather whatever the cache holds.
C2_CycleCounter == [](C2_Range) /\ [][C2_Step]_vars

\* a fetch made after exactly N completed duty cycles, the cache holding a reading
C2_Witness ==
    /\ pc = "out"
    /\ lastFetch.hadCache
    /\ lastFetch.cycles = API_REFRESH_CYCLES
    /\ sinceFetch = 0

\* C3: a fetch made while the cache holds a reading comes at least N
\* iterations of the loop (aborted ones counted) after the fetch before it.
C3_FetchOncePerPeriod ==
    lastFetch.hadCache => lastFetch.iters >= API_REFRESH_CYCLES

IsTransient(e) == e.out.kind = "raise" /\ e.out.exc \in TransportErrors
IsSuccess(e) == e.raised = "none"
TransientThenSuccess ==
    \A i \in 1..Len(outcomes) :
        IsTransient(outcomes[i]) \/ (i = Len(outcomes) /\ IsSuccess(outcomes[i]))

\* C4: when the attempts meet only transient failures, optionally ended by a
\* success, fetch_weather makes min(3, position of the first success)
\* attempts, sleeps retry_delay once between two attempts and never after the
\* last, and returns the reading of the success, or None after 3 failures.
C4_TransientRetries ==
    (fetch_pc # "idle" /\ TransientThenSuccess) =>
        /\ Len(outcomes) <= max_retries
        /\ fetch_pc = "returned" <=>
              (Len(outcomes) > 0 /\
               (IsSuccess(Last(outcomes)) \/ Len(outcomes) = max_retries))
        /\ fetch_pc = "returned" =>
              /\ sleeps = Len(outcomes) - 1
              /\ fetch_ret = IF IsSuccess(Last(outcomes))
                             THEN Reading(Last(outcomes).out.body, TEMP_UNIT)
                             ELSE None
        /\ fetch_pc = "attempt" => sleeps = Len(outcomes)

\* three transient failures of different kinds: 3 attempts, 2 delays, None
C4_Witness ==
    /\ fetch_pc = "returned"
    /\ Len(outcomes) = max_retries
    /\ \A i \in 1..Len(outcomes) : IsTransient(outcomes[i])
    /\ outcomes[1].out.exc # outcomes[2].out.exc
    /\ sleeps = max_retries - 1
    /\ fetch_ret = None

IsAuthOrNotFound(e) == e.out.kind = "response" /\ e.out.status \in {401, 404}

\* C5: an attempt answered 401 or 404 is the last one: fetch_weather returns
\* None at once, without a retry delay after it, on whichever attempt.
C5_NoRetryOn401And404 ==
    \A i \in 1..Len(outcomes) :
        IsAuthOrNotFound(outcomes[i]) =>
            /\ i = Len(outcomes)
            /\ fetch_pc = "returned"
            /\ fetch_ret = None
            /\ sleeps = Len(outcomes) - 1

\* a 404 on the second attempt
C5_Witness ==
    /\ Len(outcomes) = 2
    /\ Last(outcomes).out.status = 404
    /\ fetch_pc = "returned"
    /\ sleeps = 1

IsMalformed(e) ==
    e.out.kind = "response" /\ e.out.status = 200 /\ e.out.body.form \in MalformedForms

\* C6: an attempt answered with a successful status and a malformed body is
\* the last one: fetch_weather returns None at once, without retry or delay.
C6_NoRetryOnMalformedBody ==
    \A i \in 1..Len(outcomes) :
        IsMalformed(outcomes[i]) =>
            /\ i = Len(outcomes)
            /\ fetch_pc = "returned"
            /\ fetch_ret = None
            /\ sleeps = Len(outcomes) - 1

SameTextNoScroll ==
    /\ display
    /\ wdPrev.called
    /\ wdLast.called
    /\ wdPrev.text = wdLast.text
    /\ ~wdLast.afterScroll

\* C7 as stated: of two consecutive write_display calls with equal text and
\* no scroll in between, at most one invokes the hardware write.
C7_AtMostOneWrite ==
    /\ wdLast.called => (wdLast.hw <=> wdLast.text # wdLast.cache)
    /\ SameTextNoScroll => ~(wdPrev.hw /\ wdLast.hw)

\* C7 as amended: write_display invokes the hardware write exactly when the
\* text differs from last_display_text; of two consecutive calls with equal
\* text and no scroll in between, the second invokes no hardware write
\* provided the first returned normally (a write that raised is not cached).
C7_WriteSuppressed ==
    /\ wdLast.called => (wdLast.hw <=> wdLast.text # wdLast.cache)
    /\ (SameTextNoScroll /\ wdPrev.ok) => ~wdLast.hw

\* the time written in one iteration is submitted again in the next, no
\* scroll in between (the weather cache is empty), and is not written again
C7_Witness ==
    /\ SameTextNoScroll
    /\ wdPrev.ok
    /\ wdPrev.hw
    /\ ~wdLast.hw
    /\ wdLast.ok

\* C8: a write_display call that follows a marquee call finds
\* last_display_text invalidated (None).
C8_ScrollInvalidates ==
    (wdLast.called /\ wdLast.afterScroll) => wdLast.cache = NoneText

\* what one step may do after a fault, in the cooldown, and when stopping
C9_Step ==
    /\ (faults' > faults) => pc' = "cooldown"
    /\ (pc = "cooldown" /\ pc' # "stopped") =>
           /\ pc' = "clock"
           /\ Last(trace') = Event("sleep", <<>>, COOLDOWN, TRUE)
           /\ iterations' = iterations
    /\ (pc' = "stopped") => termRequested'

\* C9: an exception raised in an iteration leads to the except clause, whose
\* 5-second sleep is followed by the top of the loop; main_loop ends only on
\* a termination request.
C9_LoopSurvivesFaults == [](pc = "stopped" => termRequested) /\ [][C9_Step]_vars

\* back at the top of the loop after a fault and the cooldown
C9_Witness ==
    /\ pc = "clock"
    /\ faults > 0
    /\ ~termRequested
    /\ trace # <<>>
    /\ Last(trace) = Event("sleep", <<>>, COOLDOWN, TRUE)

\* C10: once a termination request is delivered the engine is stopped, and
\* with a display present the device is blank when it stops.
C10_StopsBlanked ==
    /\ termRequested => pc = "stopped"
    /\ (pc = "stopped" /\ display) => (hw.glyphs = BlankGlyphs /\ ~hw.colon)

HwOps == {"print", "show", "colon_on", "colon_off", "fill", "marquee"}
\* without a display nothing is asked of the device and nothing is raised
HeadlessQuiet ==
    /\ \A i \in 1..Len(trace) : trace[i].op \notin HwOps
    /\ faults = 0
    /\ pc # "cooldown"
    /\ hw = [glyphs |-> BlankGlyphs, colon |-> FALSE]
    /\ ~wdLast.called
\* every phase of an iteration leads to the next one
HeadlessStep ==
    /\ (pc = "clock" /\ pc' # "stopped") =>
           (pc' = "custom" /\ trace' = <<Event("sleep", <<>>, total_seconds, TRUE)>>)
    /\ (pc = "custom" /\ pc' # "stopped") => pc' = "weather"
    /\ (pc = "weather" /\ pc' # "stopped") =>
           pc' = IF cached_weather_info' # None THEN "out" ELSE "incr"
    /\ (pc = "out" /\ pc' # "stopped") => pc' = "feel"
    /\ (pc = "feel" /\ pc' # "stopped") => pc' = "hum"
    /\ (pc = "hum" /\ pc' # "stopped") => pc' = "incr"

\* C11: with the display absent the loop goes through every phase of every
\* duty cycle without raising and without any call on the device, fetches
\* on the same schedule and advances cycle_counter once per cycle.
C11_Headless ==
    /\ [](~display => HeadlessQuiet)
    /\ [][~display => (HeadlessStep /\ C2_Step)]_vars

\* headless, a duty cycle completed after the refetch that follows N cycles
C11_Witness ==
    /\ ~display
    /\ lastFetch.hadCache
    /\ lastFetch.cycles = API_REFRESH_CYCLES
    /\ sinceFetch = 1
    /\ cycle_counter = 1
    /\ pc = "clock"

interval_seconds == CUSTOM_TEXT_INTERVAL * SecondsPerMinute
CustomScrolls(tr) ==
    Cardinality({i \in 1..Len(tr) : tr[i].op = "marquee" /\ tr[i].text = CUSTOM_TEXT})
\* two consecutive True returns are at least the interval apart, and there
\* is at most one per interval of wall time elapsed
CustomSpacing ==
    /\ custom_calls.prev # -1 => last_custom_text_time - custom_calls.prev >= interval_seconds
    /\ custom_calls.shown > 0 => (custom_calls.shown - 1) * interval_seconds <= now
\* the message is scrolled only after a True return
CustomStep ==
    (pc = "custom" /\ pc' # "stopped") =>
        CustomScrolls(trace') - CustomScrolls(trace) <= custom_calls'.shown - custom_calls.shown
\* two duty cycles, none aborted, completed within 90 seconds of the start
TwoCyclesIn90s ==
    /\ CUSTOM_TEXT_ENABLED
    /\ iterations = 2
    /\ pc = "incr"
    /\ faults = 0
    /\ now <= 90

\* C12 as stated: consecutive displays of the custom message are at least
\* CUSTOM_TEXT_INTERVAL*60 seconds apart, and with an interval of 1 minute
\* two duty cycles spanning 90 seconds display it exactly once.
C12_OncePerInterval ==
    /\ CustomSpacing
    /\ TwoCyclesIn90s => custom_calls.shown = 1

\* C12 as amended: consecutive displays of the custom message are at least
\* CUSTOM_TEXT_INTERVAL*60 seconds apart, whatever the number of duty cycles
\* in between; two duty cycles spanning 90 seconds display it once, or twice
\* when their two checks are a full interval apart.
C12_SpacedByInterval ==
    /\ [](CustomSpacing)
    /\ [](TwoCyclesIn90s =>
             /\ custom_calls.shown \in {1, 2}
             /\ custom_calls.shown = 2 =>
                    last_custom_text_time - custom_calls.prev >= interval_seconds)
    /\ [][CustomStep]_vars

\* the second duty cycle checks after the wall clock has advanced by less
\* than the interval, and does not display the message again
C12_Witness ==
    /\ TwoCyclesIn90s
    /\ custom_calls.shown = 1
    /\ now > 0
    /\ time_time(now) - last_custom_text_time < interval_seconds
    /\ CustomScrolls(trace) = 0

\* the events of the weather phase of the current iteration, display present:
\* those after the last tick of the clock phase and after the custom message
LastTick ==
    LET ticks == {i \in 1..Len(trace) : trace[i].op = "sleep_until"}
    IN  IF ticks = {} THEN 0 ELSE CHOOSE i \in ticks : \A j \in ticks : j <= i
AfterClock == SubSeq(trace, LastTick + 1, Len(trace))
CustomLen ==
    IF Len(AfterClock) >= 2 /\ AfterClock[2].op = "marquee" /\ AfterClock[2].text = CUSTOM_TEXT
    THEN 3 ELSE 0
WeatherEvents == SubSeq(AfterClock, CustomLen + 1, Len(AfterClock))
Hold(secs) == Event("sleep", <<>>, secs, TRUE)
Call(op, text) == Event(op, text, 0, TRUE)
PagedEvents(temp_text, feels_text, humidity_text) ==
    << Call("fill", <<>>), Call("marquee", <<"O", "u", "t">>), Hold(2),
       Call("print", temp_text), Call("show", <<>>), Hold(TEMP_DISPLAY),
       Call("fill", <<>>), Call("marquee", <<"f", "e", "e", "l">>), Hold(2),
       Call("print", feels_text), Call("show", <<>>), Hold(FEELS_LIKE_DISPLAY),
       Call("print", humidity_text), Call("show", <<>>), Hold(HUMIDITY_DISPLAY) >>
WeatherRendered == display /\ pc = "incr" /\ cached_weather_info # None

\* C13: in paged style with a display the weather phase of a duty cycle is
\* scroll Out, pause, write of the temperature, hold TEMP_DISPLAY, scroll
\* feel, pause, write of the feels-like temperature, hold
\* FEELS_LIKE_DISPLAY, write of the humidity, hold HUMIDITY_DISPLAY, in this
\* order and nothing else; the reading (20, 18, 55) in Celsius is written
\* as " 20C", " 18C" and "rH55".
C13_PagedSequence ==
    (WeatherRendered /\ ~SMOOTH_SCROLL) =>
        /\ Len(WeatherEvents) = 15
        /\ WeatherEvents = PagedEvents(WeatherEvents[4].text, WeatherEvents[10].text,
                                       WeatherEvents[13].text)
        /\ Len(WeatherEvents[4].text) = 4
        /\ Len(WeatherEvents[10].text) = 4
        /\ WeatherEvents[4].text[4] = TEMP_UNIT
        /\ WeatherEvents[10].text[4] = TEMP_UNIT
        /\ SubSeq(WeatherEvents[13].text, 1, 2) = <<"r", "H">>
        /\ (cached_weather_info = <<5 * 20, 5 * 18, 55>> /\ TEMP_UNIT = "C") =>
               WeatherEvents = PagedEvents(<<" ", "2", "0", "C">>, <<" ", "1", "8", "C">>,
                                           <<"r", "H", "5", "5">>)

\* the paged weather phase of the reading (20, 18, 55) in Celsius, after the
\* custom message was shown in the same duty cycle
C13_Witness ==
    /\ WeatherRendered
    /\ ~SMOOTH_SCROLL
    /\ TEMP_UNIT = "C"
    /\ cached_weather_info = <<5 * 20, 5 * 18, 55>>
    /\ CustomLen = 3
    /\ WeatherEvents[4].text = <<" ", "2", "0", "C">>

Pad3 == <<" ", " ", " ">>
HasLabel(text, label) ==
    /\ Len(text) > Len(label) + 4
    /\ SubSeq(text, 1, Len(label) + 1) = label \o <<" ">>
    /\ SubSeq(text, Len(text) - 2, Len(text)) = Pad3
    /\ text[Len(label) + 2] # " "
ScrollEvents(out_text, feel_text, humidity_text) ==
    << Call("fill", <<>>), Call("marquee", out_text),
       Call("fill", <<>>), Call("marquee", feel_text),
       Call("fill", <<>>), Call("marquee", humidity_text) >>
PagedLabels == {<<"O", "u", "t">>, <<"f", "e", "e", "l">>}

\* C14: with SMOOTH_SCROLL the weather phase is three combined scrolls, of
\* "Out <temperature>", "FEEL <feels-like>" and "rH <humidity>" in this
\* order, with no write_display and no sleep; without it every scroll of the
\* weather phase is of a bare label.
C14_StylesExclusive ==
    /\ (WeatherRendered /\ SMOOTH_SCROLL) =>
          /\ Len(WeatherEvents) = 6
          /\ WeatherEvents = ScrollEvents(WeatherEvents[2].text, WeatherEvents[4].text,
                                          WeatherEvents[6].text)
          /\ HasLabel(WeatherEvents[2].text, <<"O", "u", "t">>)
          /\ HasLabel(WeatherEvents[4].text, <<"F", "E", "E", "L">>)
          /\ HasLabel(WeatherEvents[6].text, <<"r", "H">>)
          /\ (cached_weather_info = <<5 * 20, 5 * 18, 55>> /\ TEMP_UNIT = "C") =>
                 WeatherEvents =
                     ScrollEvents(<<"O", "u", "t", " ", "2", "0", "C">> \o Pad3,
                                  <<"F", "E", "E", "L", " ", "1", "8", "C">> \o Pad3,
                                  <<"r", "H", " ", "5", "5">> \o Pad3)
    /\ (WeatherRendered /\ ~SMOOTH_SCROLL) =>
          \A i \in 1..Len(WeatherEvents) :
              WeatherEvents[i].op = "marquee" => WeatherEvents[i].text \in PagedLabels

\* the scrolling weather phase of the reading (20, 18, 55) in Celsius
C14_Witness ==
    /\ WeatherRendered
    /\ SMOOTH_SCROLL
    /\ TEMP_UNIT = "C"
    /\ cached_weather_info = <<5 * 20, 5 * 18, 55>>
    /\ Len(WeatherEvents) = 6
    /\ WeatherEvents[6].text = <<"r", "H", " ", "5", "5">> \o Pad3

SignedText(n) == IF n < 0 THEN <<"-">> \o IntStr(-n) ELSE IntStr(n)
\* round(c * 9/5) + 32 for an integer c
RoundedFahrenheit(c) == PyRound(18 * c) + 32

\* C15: with temp_unit = F the reading returned by fetch_weather holds, for
\* the rounded Celsius value c of the API, the integer round(c*9/5) + 32,
\* and that integer is the number the temperature text shows.
C15_FahrenheitRounded ==
    (fetch_pc = "returned" /\ fetch_ret # None /\ TEMP_UNIT = "F") =>
        LET c == PyRound(Last(outcomes).out.body.temp)
        IN  /\ fetch_ret[1] = 5 * RoundedFahrenheit(c)
            /\ build_temp_string(fetch_ret[1], "F") =
                   SignedText(RoundedFahrenheit(c)) \o <<"F">>

\* the Celsius integers of an API body, converted once (in fifths of a degree)
OnceConverted(body, unit) ==
    LET t == PyRound(body.temp)
        fl == PyRound(body.feels_like)
    IN  IF unit = "F" THEN <<9 * t + 160, 9 * fl + 160, PyRound(body.humidity)>>
        ELSE <<5 * t, 5 * fl, PyRound(body.humidity)>>
\* the text of a temperature held in fifths: int() of it, and the unit
TempText(v, unit) ==
    (IF v < 0 THEN <<"-">> ELSE <<>>) \o IntStr((IF v < 0 THEN -v ELSE v) \div 5) \o <<unit>>
\* the temperature and feels-like texts the weather phase has put on the device
ShownTemps ==
    IF SMOOTH_SCROLL
    THEN <<SubSeq(WeatherEvents[2].text, 5, Len(WeatherEvents[2].text) - 3),
           SubSeq(WeatherEvents[4].text, 6, Len(WeatherEvents[4].text) - 3)>>
    ELSE <<WeatherEvents[4].text, WeatherEvents[10].text>>
ExpectedTemps ==
    LET t == TempText(cached_weather_info[1], TEMP_UNIT)
        fl == TempText(cached_weather_info[2], TEMP_UNIT)
    IN  IF SMOOTH_SCROLL THEN <<t, fl>> ELSE <<RJust(t, 4, " "), RJust(fl, 4, " ")>>
CacheStep == (cached_weather_info' # cached_weather_info /\ pc' # "stopped") => pc = "weather"

\* C16: the cache holds the API reading converted once and changes only
\* when main_loop fetches; every weather phase, of the duty cycle that fetched
\* and of those that reuse the cache, shows the cached values as they are.
C16_ConvertedOnce ==
    /\ [](cached_weather_info # None =>
             \E b \in ReadingBodies : cached_weather_info = OnceConverted(b, TEMP_UNIT))
    /\ [](WeatherRendered => ShownTemps = ExpectedTemps)
    /\ [][CacheStep]_vars

\* a duty cycle that reuses the cache has shown 71.6 F as 71F
C16_Witness ==
    /\ WeatherRendered
    /\ sinceFetch > 0
    /\ TEMP_UNIT = "F"
    /\ cached_weather_info[1] = 9 * 22 + 160
    /\ ShownTemps[1] \in {<<"7", "1", "F">>, <<" ", "7", "1", "F">>}

TwoDigits == {<<Digits[a], Digits[b]>> : a, b \in 1..10}
\* the humidity digits the weather phase has put on the device
ShownHumidity ==
    IF SMOOTH_SCROLL
    THEN SubSeq(WeatherEvents[6].text, 4, Len(WeatherEvents[6].text) - 3)
    ELSE SubSeq(WeatherEvents[13].text, 3, Len(WeatherEvents[13].text))

\* C17: the humidity shown by the weather phase is two digits, the text
\* written in paged style being "rH" and two digits, 4 glyphs.
C17_HumidityTwoDigits ==
    WeatherRendered =>
        /\ ShownHumidity \in TwoDigits
        /\ ~SMOOTH_SCROLL => Len(WeatherEvents[13].text) = 4

DigitValue(ch) == CHOOSE d \in 0..9 : Digits[d + 1] = ch
\* the number a two-glyph field shows, -1 when it is not a number
FieldValue(field) ==
    IF field[1] = " " /\ \E d \in 1..10 : Digits[d] = field[2]
    THEN DigitValue(field[2])
    ELSE IF \A k \in 1..2 : \E d \in 1..10 : Digits[d] = field[k]
    THEN 10 * DigitValue(field[1]) + DigitValue(field[2])
    ELSE -1
ShownHour == FieldValue(SubSeq(wdLast.text, 1, 2))
ShownMinute == FieldValue(SubSeq(wdLast.text, 3, 4))
TimeShown == wdLast.called /\ Len(wdLast.text) = 4

\* C18: the hour display_time shows at the hour h of the system clock is,
\* in 12-hour mode, in 1..12 and equal to h mod 12, 12 standing for h = 0
\* and h = 12; in 24-hour mode it is h.
C18_HourShown ==
    wdLast.called =>
        /\ Len(wdLast.text) = 4
        /\ LET h == tm_hour(now)
           IN  IF TIME_FORMAT = "12"
               THEN /\ ShownHour \in 1..12
                    /\ ShownHour % 12 = h % 12
                    /\ (h \in {0, 12} => ShownHour = 12)
               ELSE ShownHour = h

\* midnight in 12-hour mode is shown as 12
C18_Witness ==
    /\ wdLast.called
    /\ TIME_FORMAT = "12"
    /\ tm_hour(now) = 0
    /\ SubSeq(wdLast.text, 1, 2) = <<"1", "2">>

\* C19: a call of get_current_time makes one query when there is an NTP
\* client and none otherwise, returns the time of the query when it
\* succeeds and the system time in every other case, and raises nothing.
C19_TimeFallback ==
    time_call.called =>
        /\ time_call.queries = (IF ntp_client THEN 1 ELSE 0)
        /\ ~time_call.raised
        /\ time_call.ret = IF ntp_client /\ time_call.outcome = "ok"
                           THEN time_call.tx_time ELSE time_call.local

\* the query timed out while the network time was a minute ahead: one query,
\* the system time returned
C19_Witness ==
    /\ time_call.called
    /\ ntp_client
    /\ time_call.outcome = "socket.timeout"
    /\ time_call.tx_time # time_call.local
    /\ time_call.queries = 1
    /\ time_call.ret = time_call.local

\* C20: the digits the clock phase puts on the display are those of the
\* time get_current_time returns at that moment.
C20_DigitsFromTimeSource ==
    (TimeShown /\ time_call.called) =>
        /\ ShownHour = DisplayHour(tm_hour(time_call.ret), TIME_FORMAT)
        /\ ShownMinute = tm_min(time_call.ret)

\* the seconds of work recorded by the step from trace old to trace new
TickWork(old, new) ==
    LET S == {i \in (Len(old) + 1)..Len(new) : new[i].op = "work"}
    IN  IF S = {} THEN 0 ELSE new[CHOOSE i \in S : TRUE].secs

C21_Targets ==
    display /\ pc \in {"tick", "custom"}
    => /\ next_tick = seconds_elapsed
       /\ monotonic >= next_tick
       /\ (pc = "custom" => seconds_elapsed = total_seconds)
       /\ CountOps(ColonOps) = seconds_elapsed

C21_TickStep ==
    pc = "tick" /\ pc' \in {"tick", "custom"}
    => LET reached == monotonic + TickWork(trace, trace')
           residual == (next_tick + 1) - reached
       IN  /\ next_tick' = next_tick + 1
           /\ residual > 0 => /\ Last(trace') = Event("sleep_until", <<>>, next_tick', TRUE)
                              /\ monotonic' = next_tick'
           /\ residual <= 0 => /\ Last(trace').op # "sleep_until"
                               /\ monotonic' = reached

\* C21: within one clock phase the k-th tick's wake target is the phase start
\* plus k seconds whatever the work of earlier ticks took; a tick sleeps only
\* the residual up to its target, does not sleep when the residual is not
\* positive, and the phase has total_seconds ticks with or without overruns
C21_NoDrift == []C21_Targets /\ [][C21_TickStep]_vars

\* a phase whose first tick overran by two seconds and whose last tick woke
\* at its own target
C21_Witness ==
    /\ display /\ pc = "custom" /\ TIME_DISPLAY = 2
    /\ \E i \in 1..Len(trace) : trace[i].op = "work" /\ trace[i].secs = 2
                                /\ CountOps({"sleep_until"}) < total_seconds
    /\ Last(trace) = Event("sleep_until", <<>>, total_seconds, TRUE)
    /\ monotonic = total_seconds

\* a tick of the clock phase that completed
TickDone == pc = "tick" /\ pc' \in {"tick", "custom"}

\* C22: every tick toggles the colon (alternating, the first tick on) and by
\* itself changes neither the glyphs nor last_display_text; display_time is
\* called on a tick exactly when the minute read on it differs from
\* last_time_minute, which then becomes that minute
C22_TickColonAndRollover ==
    [][TickDone =>
        /\ colon_on' = ~colon_on
        /\ (seconds_elapsed = 0 => colon_on')
        /\ hw'.colon = colon_on'
        /\ trace'[Len(trace) + 1].op = (IF colon_on' THEN "colon_on" ELSE "colon_off")
        /\ last_time_minute' = last_time_minute
           => /\ tm_min(now') = last_time_minute
              /\ hw'.glyphs = hw.glyphs
              /\ last_display_text' = last_display_text
              /\ wdLast' = wdLast /\ wdPrev' = wdPrev
              /\ \A i \in (Len(trace) + 1)..Len(trace') : trace'[i].op # "print"
        /\ last_time_minute' # last_time_minute
           => /\ \E t \in now..now' : last_time_minute' = tm_min(t)
              /\ wdPrev' = wdLast
              /\ wdLast'.called
              /\ wdLast'.text = Fmt2d(DisplayHour(tm_hour(now'), TIME_FORMAT))
                                \o Fmt02d(tm_min(now'))
              /\ last_display_text' = wdLast'.text
              /\ hw'.glyphs = wdLast'.text]_vars

\* the second tick of a phase started at 23:59 met midnight: the colon is
\* off again and the digits were written a second time
C22_Witness ==
    /\ display /\ pc \in {"tick", "custom"} /\ seconds_elapsed = 2
    /\ ~hw.colon /\ ~colon_on
    /\ last_time_minute = 0
    /\ CountOps({"print"}) = 2
    /\ trace[Len(trace) - 4].op = "colon_off"
    /\ hw.glyphs = <<"1", "2", "0", "0">>

\* the step made a write_display call with the display present
WriteCalled == wdLast' # wdLast \/ wdPrev' # wdPrev
\* the device calls and sleeps of the step: a new iteration starts a new trace
StepEvents ==
    IF iterations' # iterations THEN trace' ELSE SubSeq(trace', Len(trace) + 1, Len(trace'))
\* the positions in the step of a print that the hardware took and showed
Written ==
    {i \in 1..(Len(StepEvents) - 1) :
        /\ StepEvents[i].op = "print" /\ StepEvents[i].ok
        /\ StepEvents[i + 1].op = "show" /\ StepEvents[i + 1].ok}
\* a print of the step raised, or the show that follows a print did
WriteRaised ==
    \E i \in 1..Len(StepEvents) :
        /\ ~StepEvents[i].ok
        /\ \/ StepEvents[i].op = "print"
           \/ i > 1 /\ StepEvents[i].op = "show" /\ StepEvents[i - 1].op = "print"
Scrolled == \E i \in 1..Len(StepEvents) : StepEvents[i].op = "marquee" /\ StepEvents[i].ok

\* C23: last_display_text changes only by a write_display whose print and
\* show succeeded, after which it is the text written, or by the
\* invalidation that follows a scroll; a call with the cached text, a call
\* without a display and a call whose print or show raises leave it as it was
C23_CacheFrame ==
    [][pc' # "stopped" =>
        /\ last_display_text' # last_display_text
           => \/ last_display_text' = NoneText /\ Scrolled
              \/ \E i \in Written : last_display_text' = StepEvents[i].text
        /\ Written # {}
           => LET i == CHOOSE k \in Written : \A j \in Written : j <= k
              IN  (\A j \in i..Len(StepEvents) : StepEvents[j].op # "marquee")
                  => /\ last_display_text' = StepEvents[i].text
                     /\ wdLast'.text = StepEvents[i].text /\ wdLast'.hw /\ wdLast'.ok
        /\ WriteRaised
           => /\ wdLast'.hw /\ ~wdLast'.ok
              /\ last_display_text' = wdLast'.cache
              /\ last_display_text' = (IF Scrolled THEN NoneText ELSE last_display_text)
        /\ WriteCalled /\ ~wdLast'.hw
           => /\ wdLast'.text = wdLast'.cache
              /\ last_display_text' = wdLast'.cache
              /\ \A i \in 1..Len(StepEvents) : StepEvents[i].op # "print"
        /\ ~display => last_display_text' = last_display_text /\ ~WriteCalled]_vars

\* a write over another cached text raised and left that text cached
C23_Witness ==
    /\ pc = "cooldown"
    /\ wdLast.called /\ wdLast.hw /\ ~wdLast.ok
    /\ wdLast.cache # NoneText
    /\ wdLast.text # wdLast.cache
    /\ last_display_text = wdLast.cache

IsDigit(ch) == \E d \in 1..10 : Digits[d] = ch
\* s[:4].rjust(4), glyph by glyph
FirstFourRight(s) ==
    [k \in 1..4 |-> IF Len(s) >= 4 THEN s[k]
                    ELSE IF k <= 4 - Len(s) THEN " " ELSE s[k - (4 - Len(s))]]
\* the temperature display_temperature has just been given
TempWritten ==
    IF pc = "feel" THEN cached_weather_info[1] ELSE cached_weather_info[2]

\* C24: display_time and display_temperature hand exactly 4 glyphs to the
\* hardware: a 2-wide space-padded hour and a 2-digit zero-padded minute; a
\* temperature text cut to its first 4 characters and right-justified to 4
C24_FourGlyphs ==
    /\ (pc \in {"tick", "custom", "weather"} /\ wdLast.called)
       => /\ Len(wdLast.text) = 4
          /\ ShownHour = DisplayHour(tm_hour(now), TIME_FORMAT)
          /\ (ShownHour < 10 <=> wdLast.text[1] = " ")
          /\ IsDigit(wdLast.text[2])
          /\ IsDigit(wdLast.text[3]) /\ IsDigit(wdLast.text[4])
          /\ ShownMinute = tm_min(now)
          /\ hw.glyphs = wdLast.text
    /\ pc \in {"feel", "hum"}
       => /\ Len(wdLast.text) = 4
          /\ wdLast.text = FirstFourRight(TempText(TempWritten, TEMP_UNIT))
          /\ hw.glyphs = wdLast.text

\* -100 C was shown as "-100": the unit, the text's fifth character, is lost
C24_Witness ==
    /\ pc = "feel" /\ TEMP_UNIT = "C"
    /\ cached_weather_info[1] = -MaxCold * 5
    /\ Len(TempText(cached_weather_info[1], TEMP_UNIT)) = 5
    /\ wdLast.text = <<"-", "1", "0", "0">>

\* main_loop has called fetch_weather in this step
FetchStep == pc = "weather" /\ pc' \in {"out", "incr"} /\ itersSinceFetch' = 0

C25_FreshOnly ==
    pc \in {"out", "feel", "hum"} => cached_weather_info # None /\ lastFetch.ok

C25_Step ==
    /\ FetchStep
       => /\ lastFetch'.ok <=> cached_weather_info' # None
          /\ ~lastFetch'.ok => pc' = "incr" /\ trace' = trace /\ hw' = hw
    /\ (pc = "weather" /\ pc' \in {"out", "incr"} /\ cached_weather_info = None)
       => FetchStep
    /\ (pc = "incr" /\ pc' = "clock") => cycle_counter' = NextCounter(cycle_counter)

\* C25: a refresh that fails empties the cache, whatever it held: nothing of
\* the weather is rendered in that duty cycle, the counter still advances,
\* every later duty cycle fetches again while the cache is empty, and a
\* reading is rendered only when the last fetch returned it
C25_FailedRefreshDiscards == []C25_FreshOnly /\ [][C25_Step]_vars

\* a refresh at counter 0 that found a valid reading cached has failed: the
\* cache is empty and the duty cycle is at its end without a weather event
C25_Witness ==
    /\ display /\ pc = "incr" /\ cycle_counter = 0
    /\ lastFetch.hadCache /\ ~lastFetch.ok
    /\ cached_weather_info = None
    /\ Last(trace).op = "sleep_until"

\* C26: an iteration aborted by an error leaves cycle_counter as it was: the
\* counter changes only in the increment that ends a duty cycle whose weather
\* phase has run to its end, never on the way through the except clause, so
\* the iteration that follows the cooldown runs with the same counter
C26_AbortKeepsCounter ==
    [][pc' # "stopped" =>
        /\ faults' > faults => cycle_counter' = cycle_counter /\ pc' = "cooldown"
        /\ pc = "cooldown" => cycle_counter' = cycle_counter
        /\ pc # "incr" => cycle_counter' = cycle_counter
        /\ (pc' = "incr" /\ pc # "incr") => pc \in {"weather", "hum"}
        /\ (pc = "incr" /\ pc' = "clock") => cycle_counter' = NextCounter(cycle_counter)]_vars

\* the second iteration, started with the counter at 1, was aborted: after
\* the cooldown the loop is at its top with the counter at 1
C26_Witness ==
    /\ pc = "clock" /\ iterations = 2 /\ faults = 1
    /\ cycle_counter = 1
    /\ Last(trace) = Event("sleep", <<>>, COOLDOWN, TRUE)

\* C27: a clock phase that has done all its ticks leaves the colon off: the
\* ticks toggle it from off an even number of times, so it is not lit when
\* the custom-message phase or the weather phase begins
C27_ColonOffAfterClock ==
    pc \in {"custom", "weather"}
    => /\ ~hw.colon
       /\ ~colon_on
       /\ (display /\ pc = "custom")
          => /\ CountOps(ColonOps) % 2 = 0
             /\ CountOps({"colon_on"}) = CountOps({"colon_off"})
             /\ trace[Len(trace) - 2].op = "colon_off"

\* the shortest clock phase ended: the colon was lit once and is off
C27_Witness ==
    /\ display /\ pc = "custom" /\ TIME_DISPLAY = 1
    /\ CountOps({"colon_on"}) = 1 /\ CountOps({"colon_off"}) = 1
    /\ ~hw.colon

IsOtherHttpError(e) ==
    e.out.kind = "response" /\ e.out.status >= 400 /\ e.out.status \notin {401, 404}
\* the error classes of the clauses that retry: Timeout, ConnectionError and
\* the generic RequestException, HTTPError excepted
IsRequestError(exc) == "RequestException" \in ExcBases(exc) /\ exc # "HTTPError"

\* C28: an attempt answered with an error status other than 401 and 404 is
\* the last one: fetch_weather returns None at once, without a retry delay
\* after it; an attempt is followed by another only when it raised a timeout,
\* a connection error or another request error that is not an HTTPError
C28_NoRetryOnHttpError ==
    /\ \A i \in 1..Len(outcomes) :
          IsOtherHttpError(outcomes[i]) =>
              /\ outcomes[i].raised = "HTTPError"
              /\ i = Len(outcomes)
              /\ fetch_pc = "returned"
              /\ fetch_ret = None
              /\ sleeps = Len(outcomes) - 1
    /\ \A i \in 1..(Len(outcomes) - 1) : IsRequestError(outcomes[i].raised)
    /\ fetch_pc = "attempt" /\ Len(outcomes) > 0 => IsRequestError(Last(outcomes).raised)
    /\ sleeps <= max_retries - 1

\* a 503 on the second attempt, after a timeout and one delay
C28_Witness ==
    /\ Len(outcomes) = 2
    /\ outcomes[1].raised = "Timeout"
    /\ Last(outcomes).out.status = 503
    /\ fetch_pc = "returned"
    /\ fetch_ret = None
    /\ sleeps = 1

\* should_display_custom_text has returned True, or False, in this step
ReturnedTrue == custom_calls'.shown = custom_calls.shown + 1
ReturnedFalse == custom_calls'.shown = custom_calls.shown

\* C29: with the message enabled and not blank, the first call of
\* should_display_custom_text returns True and the message is scrolled in the
\* first duty cycle; last_custom_text_time changes only in a call that
\* returns True, to the wall time of that call, and a call that returns False
\* leaves it as it was
C29_CustomTimeFrame ==
    [][pc' # "stopped" =>
        /\ last_custom_text_time' # last_custom_text_time
           => /\ pc = "custom"
              /\ ReturnedTrue
              /\ last_custom_text_time' = time_time(now')
        /\ ReturnedTrue => pc = "custom" /\ last_custom_text_time' = time_time(now')
        /\ ReturnedFalse => last_custom_text_time' = last_custom_text_time
        /\ (pc = "custom" /\ pc' = "weather" /\ last_custom_text_time = -1)
           => /\ ReturnedTrue
              /\ custom_calls'.shown = 1
              /\ faults = 0 => iterations = 1
              /\ display => CustomScrolls(trace') = 1]_vars

\* the check of the second duty cycle, made later than the first, returned
\* False: last_custom_text_time is still the time of the first check
C29_Witness ==
    /\ iterations = 2 /\ pc = "weather" /\ faults = 0
    /\ custom_calls.shown = 1
    /\ last_custom_text_time = time_time(0)
    /\ time_time(now) > last_custom_text_time

=============================================================================
